---- MODULE Spec2Model ----
(***************************************************************************)
(* Model of analyze_all_checkpoints (src/cloud/run.ipynb, last cell): the  *)
(* checkpoint directory is globbed for *_checkpoint.pkl, each matched file *)
(* is unpickled, its 'stage' and 'firm_name' are read with the default     *)
(* 'Unknown', a count per stage and a firm list per stage are accumulated, *)
(* a report is printed and firms_by_stage is returned.                     *)
(***************************************************************************)
EXTENDS Integers, Sequences, FiniteSets, TLC

\* Largest number of directory entries explored.
MaxFiles == 3

\* Stage labels and firm names the external pipeline may have written.
Stages == {"embedding", "topic_modeling"}
Firms == {"Acme", "Globex", "Initech"}

\* The default of both dict.get calls.
Unknown == "Unknown"

\* The ending of a file name the glob pattern "*_checkpoint.pkl" asks for.
Pattern == "_checkpoint.pkl"
Endings == {Pattern, "_notes.txt"}

\* Marks a key the pickled dict does not hold (model-only, never a value).
NoField == "<absent>"
\* Marks "no exception" (and fills the value slot of the empty dict).
None == "<none>"

EmptyDict == [k \in {} |-> None]

\* The pickled dict of a checkpoint: the keys it holds, with their values.
DictKeys(s, f) ==
    (IF s = NoField THEN {} ELSE {"stage"}) \cup
    (IF f = NoField THEN {} ELSE {"firm_name"})
DictOf(s, f) == [k \in DictKeys(s, f) |-> IF k = "stage" THEN s ELSE f]

\* What a file holds: a pickled dict, or bytes pickle.load cannot read.
Dicts == {DictOf(s, f) : s \in Stages \cup {NoField}, f \in Firms \cup {NoField}}
Corrupt == [kind |-> "corrupt", data |-> EmptyDict]
Pickled(d) == [kind |-> "dict", data |-> d]
Contents == {Corrupt} \cup {Pickled(d) : d \in Dicts}

\* A directory entry: the ending of its name and what it holds.  The entry's
\* position in the listing stands for the rest of its name.
Entries ==
    {[ending |-> Pattern, content |-> c] : c \in Contents} \cup
    {[ending |-> e, content |-> Corrupt] : e \in Endings \ {Pattern}}

Listings == UNION {[1..n -> Entries] : n \in 0..MaxFiles}

VARIABLES
    dirExists,       \* whether checkpoint_dir exists
    dir,             \* its entries, in directory-listing order
    pc,              \* "start", "loop", "return", "returned", "raised"
    checkpoints,     \* list(checkpoint_path.glob(...)): positions in dir
    idx,             \* number of loop iterations completed
    stage_counts,    \* dict stage -> count
    firms_by_stage,  \* dict stage -> list of firm names
    printed,         \* <<>> until the report is printed, then <<report>>
    ret,             \* <<>> until the function returns, then <<value>>
    error            \* the exception that left the function, None if none

vars == <<dirExists, dir, pc, checkpoints, idx, stage_counts, firms_by_stage,
          printed, ret, error>>

\* Path.glob("*_checkpoint.pkl"): the entries whose name ends in the pattern,
\* in listing order; nothing at all when the path is not a directory.
MatchesAnyFile(e) == TRUE
Matches(e) == e.ending = Pattern
Glob(exists, d) ==
    IF ~exists THEN <<>>
    ELSE SelectSeq([i \in 1..Len(d) |-> i], LAMBDA i : Matches(d[i]))

\* dict.get(key, default)
Get(d, key, default) == IF key \in DOMAIN d THEN d[key] ELSE default

\* stage = cp_data.get('stage', 'Unknown')
StageNoDefault(cp_data) == Get(cp_data, "stage", "None")
StageField(cp_data) == Get(cp_data, "stage", Unknown)

\* firm = cp_data.get('firm_name', 'Unknown')
FirmField(cp_data) == Get(cp_data, "firm_name", Unknown)

\* stage_counts[stage] = stage_counts.get(stage, 0) + 1
IncCountReset(sc, stage) ==
    [s \in DOMAIN sc \cup {stage} |-> IF s = stage THEN 1 ELSE sc[s]]
IncCount(sc, stage) ==
    [s \in DOMAIN sc \cup {stage} |->
        IF s = stage THEN Get(sc, stage, 0) + 1 ELSE sc[s]]

\* if stage not in firms_by_stage: firms_by_stage[stage] = []
\* firms_by_stage[stage].append(firm)
AppendFirmOverwrite(fbs, stage, firm) ==
    [s \in DOMAIN fbs \cup {stage} |-> IF s = stage THEN <<firm>> ELSE fbs[s]]
AppendFirmPrepend(fbs, stage, firm) ==
    [s \in DOMAIN fbs \cup {stage} |->
        IF s = stage THEN <<firm>> \o Get(fbs, stage, <<>>) ELSE fbs[s]]
AppendFirm(fbs, stage, firm) ==
    [s \in DOMAIN fbs \cup {stage} |->
        IF s = stage THEN Append(Get(fbs, stage, <<>>), firm) ELSE fbs[s]]

\* open(cp_file, 'rb'): reading leaves the directory as it is.
OpenWb(d, i) == [d EXCEPT ![i].content = Corrupt]
OpenRb(d, i) == d

\* return firms_by_stage: the components the caller receives.
ReturnCounts(sc, fbs) == [stage_counts |-> sc]
ReturnValue(sc, fbs) == [firms_by_stage |-> fbs]

\* The report: "Total checkpoints: {len(checkpoints)}" and one line per stage.
Report(cps, sc) == [total |-> Len(cps), lines |-> sc]

Init ==
    /\ dirExists \in BOOLEAN
    /\ dir \in Listings
    /\ (~dirExists => dir = <<>>)
    /\ pc = "start"
    /\ checkpoints = <<>>
    /\ idx = 0
    /\ stage_counts = EmptyDict
    /\ firms_by_stage = EmptyDict
    /\ printed = <<>>
    /\ ret = <<>>
    /\ error = None

\* Lines 171-175: glob the directory, start with empty dicts.
Scan ==
    /\ pc = "start"
    /\ checkpoints' = Glob(dirExists, dir)
    /\ stage_counts' = EmptyDict
    /\ firms_by_stage' = EmptyDict
    /\ idx' = 0
    /\ pc' = "loop"
    /\ UNCHANGED <<dirExists, dir, printed, ret, error>>

\* Lines 177-186, one iteration on a file pickle.load reads.
LoopIter ==
    /\ pc = "loop"
    /\ idx < Len(checkpoints)
    /\ LET cp_file == checkpoints[idx + 1]
           content == dir[cp_file].content
       IN /\ content.kind = "dict"
          /\ LET cp_data == content.data
                 stage == StageField(cp_data)
                 firm == FirmField(cp_data)
             IN /\ stage_counts' = IncCount(stage_counts, stage)
                /\ firms_by_stage' = AppendFirm(firms_by_stage, stage, firm)
          /\ dir' = OpenRb(dir, cp_file)
    /\ idx' = idx + 1
    /\ UNCHANGED <<dirExists, pc, checkpoints, printed, ret, error>>

\* A lenient loop that would skip the unreadable file without a word.
LoopSkip ==
    /\ pc = "loop"
    /\ idx < Len(checkpoints)
    /\ dir[checkpoints[idx + 1]].content.kind = "corrupt"
    /\ idx' = idx + 1
    /\ UNCHANGED <<dirExists, dir, pc, checkpoints, stage_counts,
                   firms_by_stage, printed, ret, error>>

\* Lines 178-179 on a file pickle.load cannot read: the exception is not
\* caught anywhere and leaves the function.
LoopRaise ==
    /\ pc = "loop"
    /\ idx < Len(checkpoints)
    /\ LET cp_file == checkpoints[idx + 1]
       IN /\ dir[cp_file].content.kind = "corrupt"
          /\ dir' = OpenRb(dir, cp_file)
    /\ error' = "UnpicklingError"
    /\ pc' = "raised"
    /\ UNCHANGED <<dirExists, checkpoints, idx, stage_counts, firms_by_stage,
                   printed, ret>>

\* Lines 188-192: the printed report.
PrintReport ==
    /\ pc = "loop"
    /\ idx = Len(checkpoints)
    /\ printed' = <<Report(checkpoints, stage_counts)>>
    /\ pc' = "return"
    /\ UNCHANGED <<dirExists, dir, checkpoints, idx, stage_counts,
                   firms_by_stage, ret, error>>

\* Line 194.
Return ==
    /\ pc = "return"
    /\ ret' = <<ReturnValue(stage_counts, firms_by_stage)>>
    /\ pc' = "returned"
    /\ UNCHANGED <<dirExists, dir, checkpoints, idx, stage_counts,
                   firms_by_stage, printed, error>>

Next == Scan \/ LoopIter \/ LoopRaise \/ PrintReport \/ Return

Spec == Init /\ [][Next]_vars

TypeOK ==
    /\ pc \in {"start", "loop", "return", "returned", "raised"}
    /\ idx \in 0..Len(checkpoints)
    /\ error \in {None, "UnpicklingError"}
    /\ Len(printed) <= 1
    /\ Len(ret) <= 1

----------------------------------------------------------------------------
\* Vocabulary of the properties, stated on the directory itself.

Done == pc \in {"returned", "raised"}

\* Positions of the entries named *_checkpoint.pkl, and those among them that
\* deserialize / do not deserialize.
MatchedFiles == {i \in 1..Len(dir) : dir[i].ending = "_checkpoint.pkl"}
ValidFiles == {i \in MatchedFiles : dir[i].content.kind = "dict"}
CorruptFiles == {i \in MatchedFiles : dir[i].content.kind = "corrupt"}

\* The stage and the firm name a record stands for, defaults applied.
HasKey(i, k) == k \in DOMAIN dir[i].content.data
StageOf(i) == IF HasKey(i, "stage") THEN dir[i].content.data["stage"] ELSE "Unknown"
FirmOf(i) == IF HasKey(i, "firm_name") THEN dir[i].content.data["firm_name"] ELSE "Unknown"

\* The files the loop has gone through so far.
Processed == {checkpoints[k] : k \in 1..idx}

RECURSIVE SumOver(_, _)
SumOver(f, S) ==
    IF S = {} THEN 0
    ELSE LET x == CHOOSE y \in S : TRUE IN f[x] + SumOver(f, S \ {x})
SumCounts(sc) == SumOver(sc, DOMAIN sc)

\* The positions of S in increasing (listing) order.
RECURSIVE InOrder(_)
InOrder(S) ==
    IF S = {} THEN <<>>
    ELSE LET m == CHOOSE x \in S : \A y \in S : x <= y
         IN <<m>> \o InOrder(S \ {m})

\* The grouping of the files S by stage: firm names in listing order.
Grouping(S) ==
    [s \in {StageOf(i) : i \in S} |->
        LET members == InOrder({i \in S : StageOf(i) = s})
        IN [k \in 1..Len(members) |-> FirmOf(members[k])]]

\* How often the name n occurs in the list l.
Occurrences(l, n) == Cardinality({k \in 1..Len(l) : l[k] = n})

----------------------------------------------------------------------------
\* C1: when the checkpoint directory does not exist, the scan ends in a
\* NotFound error, nothing is printed as a report and nothing is returned.
C1_MissingDirIsNotFound ==
    ~dirExists =>
        /\ printed = <<>>
        /\ ret = <<>>
        /\ (Done => error = "NotFound")

\* C2: with corrupt files among the matched ones, no exception leaves the
\* scan, and what it returns reflects every valid file and tells how many
\* corrupt files were skipped.
C2_CorruptFileIsSkippedAndCounted ==
    (dirExists /\ CorruptFiles # {}) =>
        /\ error = None
        /\ pc # "raised"
        /\ (pc = "returned" =>
              /\ DOMAIN ret[1] = {"firms_by_stage", "corrupt_count"}
              /\ ret[1].firms_by_stage = Grouping(ValidFiles)
              /\ ret[1].corrupt_count = Cardinality(CorruptFiles))

\* C3: whenever a matched file fails to deserialize, either nothing is
\* returned, or what is returned tells how many records were skipped.
C3_NoSilentlyIncompleteSummary ==
    CorruptFiles # {} =>
        \/ ret = <<>>
        \/ "corrupt_count" \in DOMAIN ret[1]
C3_Witness ==
    /\ pc = "raised"
    /\ idx >= 1
    /\ checkpoints[idx + 1] \in CorruptFiles
    /\ ret = <<>>

\* C4: in every state of the scan, so after every loop iteration, the two
\* dicts have the same stages and the count of a stage is the length of its
\* firm list.
C4_CountIsListLength ==
    /\ DOMAIN stage_counts = DOMAIN firms_by_stage
    /\ \A s \in DOMAIN stage_counts : stage_counts[s] = Len(firms_by_stage[s])
C4_Witness ==
    /\ pc = "loop"
    /\ idx = 3
    /\ \E s, t \in DOMAIN stage_counts : stage_counts[s] = 2 /\ stage_counts[t] = 1

\* C5: once the scan has completed, the per-stage counts add up to the number
\* of matched files that deserialize, and that is the printed total, the
\* length of the matched-file list.
C5_CountsSumToTotal ==
    pc \in {"return", "returned"} =>
        /\ SumCounts(stage_counts) = Cardinality(ValidFiles)
        /\ printed[1].total = SumCounts(stage_counts)
        /\ printed[1].total = Len(checkpoints)
C5_Witness ==
    /\ pc = "returned"
    /\ printed[1].total = 2
    /\ Cardinality(DOMAIN stage_counts) = 2
    /\ Len(dir) > Len(checkpoints)

\* C6, as stated: the returned value holds the per-stage counts and the
\* per-stage firm lists.
C6_ReturnsCountsAndLists ==
    pc = "returned" =>
        ret = <<[stage_counts |-> stage_counts, firms_by_stage |-> firms_by_stage]>>
\* C6, amended: the returned value is the per-stage firm lists alone; the
\* per-stage counts go to the printed report only.
C6_ReturnsListsOnly ==
    pc = "returned" =>
        /\ ret = <<[firms_by_stage |-> firms_by_stage]>>
        /\ printed[1].lines = stage_counts
C6_Witness ==
    /\ pc = "returned"
    /\ Cardinality(DOMAIN firms_by_stage) = 2
    /\ \E s \in DOMAIN stage_counts : stage_counts[s] = 2

\* C7: of the records gone through so far, those without 'stage' are all
\* counted and listed under "Unknown", those without 'firm_name' each put one
\* "Unknown" in the list of their stage, none is dropped, and the only
\* exception that ever leaves the scan comes from a file that does not
\* deserialize.
C7_MissingFieldsDefaultToUnknown ==
    /\ ({i \in Processed : ~HasKey(i, "stage")} # {} =>
          /\ "Unknown" \in DOMAIN stage_counts
          /\ stage_counts["Unknown"] =
                Cardinality({i \in Processed : ~HasKey(i, "stage")})
          /\ Len(firms_by_stage["Unknown"]) =
                Cardinality({i \in Processed : ~HasKey(i, "stage")}))
    /\ \A s \in Stages \cup {"Unknown"} :
          {i \in Processed : StageOf(i) = s /\ ~HasKey(i, "firm_name")} # {} =>
              /\ s \in DOMAIN firms_by_stage
              /\ Occurrences(firms_by_stage[s], "Unknown") =
                    Cardinality({i \in Processed :
                                    StageOf(i) = s /\ ~HasKey(i, "firm_name")})
    /\ SumCounts(stage_counts) = Cardinality(Processed)
    /\ (error # None =>
          /\ idx < Len(checkpoints)
          /\ dir[checkpoints[idx + 1]].content.kind = "corrupt")
C7_Witness ==
    /\ pc = "returned"
    /\ \E i, j, k \in Processed :
          /\ ~HasKey(i, "stage") /\ HasKey(i, "firm_name")
          /\ HasKey(j, "stage") /\ ~HasKey(j, "firm_name")
          /\ ~HasKey(k, "stage") /\ ~HasKey(k, "firm_name")

\* C8: when the directory exists and holds no file named *_checkpoint.pkl,
\* the scan raises nothing, and it ends with total 0, no stage counts and an
\* empty mapping of firm lists.
C8_NoMatchGivesEmptySummary ==
    (dirExists /\ MatchedFiles = {}) =>
        /\ error = None
        /\ pc # "raised"
        /\ stage_counts = EmptyDict
        /\ firms_by_stage = EmptyDict
        /\ (pc \in {"return", "returned"} =>
              printed = <<[total |-> 0, lines |-> EmptyDict]>>)
        /\ (pc = "returned" => ret = <<[firms_by_stage |-> EmptyDict]>>)
C8_Witness ==
    /\ dirExists
    /\ MatchedFiles = {}
    /\ Len(dir) >= 2
    /\ pc = "returned"

\* C9: no step of the scan changes the directory: not whether it exists, not
\* which entries it has, not what any of them holds.
C9_DirectoryIsOnlyRead ==
    [][dirExists' = dirExists /\ dir' = dir]_vars
C9_Witness ==
    /\ dirExists
    /\ idx >= 2
    /\ pc = "raised"

\* C10: when every matched file deserializes, the scan reaches its return,
\* each matched file has been gone through exactly once, in listing order,
\* and the returned mapping has exactly the stages of the records as keys,
\* each with the firm names of its records in listing order, duplicates kept.
C10_GroupingInListingOrder ==
    (CorruptFiles = {} /\ Done) =>
        /\ pc = "returned"
        /\ checkpoints = InOrder(MatchedFiles)
        /\ idx = Len(checkpoints)
        /\ ret[1].firms_by_stage = Grouping(MatchedFiles)
        /\ \A s \in DOMAIN ret[1].firms_by_stage :
              ret[1].firms_by_stage[s] # <<>>
C10_Witness ==
    /\ pc = "returned"
    /\ checkpoints = <<1, 2, 3>>
    /\ dir[1].content.data = DictOf("embedding", "Acme")
    /\ dir[2].content.data = DictOf("topic_modeling", "Globex")
    /\ dir[3].content.data = DictOf("topic_modeling", "Initech")
    /\ ret[1].firms_by_stage =
          [s \in {"embedding", "topic_modeling"} |->
              IF s = "embedding" THEN <<"Acme">> ELSE <<"Globex", "Initech">>]
====
